---- MODULE Spec2Model ----
(***************************************************************************)
(* Model of the ToDo task API (src/main.py) and of its GUI client          *)
(* (src/frontend.py).                                                      *)
(*                                                                         *)
(* The API keeps one module-level MySQL connection (main.py:36) that every *)
(* request handler uses.  The connection runs with autocommit off, so the  *)
(* statements of all handlers join one open transaction: `rows` is what    *)
(* the connection sees (uncommitted changes included), `durable` is what   *)
(* has been committed, commit() copies rows to durable and rollback()      *)
(* copies durable back to rows.                                            *)
(*                                                                         *)
(* Strings are sequences of one-character strings.  An optional value is   *)
(* None == <<>> or Some(v) == <<v>>.                                       *)
(***************************************************************************)
EXTENDS Integers, Sequences, FiniteSets, TLC

VARIABLES
    rows,            \* table `tasks` as seen through the shared connection
    durable,         \* table `tasks` as committed
    nextId,          \* AUTO_INCREMENT counter of tasks.id
    th,              \* per worker thread: the request it is handling
    resp,            \* the last completed request with its response
    deleted,         \* ids whose DELETE was answered 200
    tasks,           \* frontend: the rendered DataFrame (state.tasks)
    task_name,       \* frontend: "Task Name" input
    task_status,     \* frontend: "Mark as Completed" toggle
    filter_name,     \* frontend: "Filter by Name" input
    show_completed,  \* frontend: "Show Completed" toggle
    show_pending,    \* frontend: "Show Pending" toggle
    notice,          \* frontend: the notify() calls of the last action
    calls,           \* frontend: the HTTP exchanges of the last action
    event            \* frontend: the callback that ran last

srv == <<rows, durable, nextId>>
gui == <<tasks, task_name, task_status, filter_name, show_completed, show_pending,
         notice, calls, event>>
vars == <<rows, durable, nextId, th, resp, deleted, tasks, task_name, task_status,
          filter_name, show_completed, show_pending, notice, calls, event>>

----------------------------------------------------------------------------
(* Bounds *)

\* ids the AUTO_INCREMENT counter may hand out
MaxId == 2

\* Field(min_length=1, max_length=100)
min_length == 1
max_length == 100

----------------------------------------------------------------------------
(* Values *)

None == <<>>
Some(v) == <<v>>

Str(n, c) == [i \in 1..n |-> c]

\* request names: empty, short, differing in case only, a common prefix,
\* the longest valid one and the shortest too long one
NameInputs ==
    { <<>>, <<"a">>, <<"A">>, <<"a", "b">>, Str(max_length, "x"), Str(max_length + 1, "x") }

\* names used by concurrent requests
ConcNames == { <<"a">>, <<"a", "b">> }

\* text typed in the name filter
FilterInputs == { <<>>, <<"a">>, <<"B">> }

\* text typed in the "Task Name" input
TypedInputs == { <<>>, <<" ">>, <<"a">>, <<" ", "a", "b", " ">> }

\* text typed into a "Task Name" cell of the table
CellInputs == { <<" ">>, <<"a">>, <<"a", "b">> }

\* the request reaches the server and is answered, or the connection fails
Net == { "ok", "down" }

Threads == { "w1", "w2" }

Lower(c) == IF c = "A" THEN "a" ELSE IF c = "B" THEN "b" ELSE c

LowerStr(s) == [i \in 1..Len(s) |-> Lower(s[i])]

\* `task_name = %s`: MySQL compares strings under the column's collation,
\* which by default ignores case
NameEq(a, b) == Len(a) = Len(b) /\ LowerStr(a) = LowerStr(b)

----------------------------------------------------------------------------
(* The table and the shared connection *)

Row(id, name, status) == [id |-> id, name |-> name, status |-> status]

DB == [rows |-> rows, durable |-> durable, nextId |-> nextId]

\* connection.commit(): everything the connection wrote becomes durable
Commit(db) == [db EXCEPT !.durable = db.rows]

\* connection.rollback(): everything not yet committed on the connection is undone
Rollback(db) == [db EXCEPT !.rows = db.durable]

\* the table without the constraint
UniqueViolation_none(table, id, name) == FALSE

\* UNIQUE(task_name): a row other than `id` already carries the name
UniqueViolation(table, id, name) ==
    \E r \in table : r.id # id /\ NameEq(r.name, name)

----------------------------------------------------------------------------
(* Requests *)

\* a worker thread with no request.  `name` and `status` are delete_task's
\* locals; `fresh` notes, for a Create, that no row carried the name when the
\* request arrived
Idle ==
    [pc |-> "idle", op |-> "none", task_id |-> 0,
     body |-> [name |-> None, status |-> None],
     task |-> [name |-> None, status |-> None],
     lastrowid |-> 0, name |-> None, status |-> TRUE,
     code |-> 0, detail |-> "", res |-> <<>>, fresh |-> FALSE]

\* a request as it arrives: `body` is the JSON body (or the query parameters)
Request(op, task_id, name, status) ==
    [Idle EXCEPT !.pc = "recv", !.op = op, !.task_id = task_id,
                 !.body = [name |-> name, status |-> status]]

Out(db, t) == [db |-> db, t |-> t]

Goto(t, pc) == [t EXCEPT !.pc = pc]

\* raise HTTPException(status_code, detail)
Raise(t, code, detail) == [t EXCEPT !.pc = "done", !.code = code, !.detail = detail]

\* return TaskResponse(...)
Return(t, res) == [t EXCEPT !.pc = "done", !.code = 200, !.res = res]

\* Task without max_length
TaskValid_nomax(task) ==
    /\ task.name # None
    /\ Len(task.name[1]) >= min_length

\* class Task: name is required, 1..100 characters
TaskValid(task) ==
    /\ task.name # None
    /\ Len(task.name[1]) >= min_length
    /\ Len(task.name[1]) <= max_length

\* class Task: status defaults to False
ParseTask(task) ==
    [name |-> task.name,
     status |-> IF task.status = None THEN Some(FALSE) ELSE task.status]

\* FastAPI validates the body against Task before the handler runs
Receive(db, t) ==
    IF t.op \in {"create", "update"}
    THEN IF TaskValid(t.body)
         THEN Out(db, [t EXCEPT !.pc = "select", !.task = ParseTask(t.body)])
         ELSE Out(db, Raise(t, 422, "validation error"))
    ELSE Out(db, Goto(t, "select"))

----------------------------------------------------------------------------
(* POST /addtask *)

\* a lookup that finds nothing
SelectIdByName_none(table, name) == {}

\* SELECT id from tasks where task_name=%s
SelectIdByName(table, name) == {r.id : r \in {x \in table : NameEq(x.name, name)}}

create_task(db, t) ==
    CASE t.pc = "select" ->
            \* exist = cursor.fetchone(); if exist: raise
            IF SelectIdByName(db.rows, t.task.name[1]) # {}
            THEN Out(db, Raise(t, 400, "Task name already exists"))
            ELSE Out(db, Goto(t, "insert"))
      [] t.pc = "insert" ->
            \* INSERT INTO tasks (task_name, status) VALUES (%s, %s)
            IF UniqueViolation(db.rows, db.nextId, t.task.name[1])
            THEN Out(db, Goto(t, "integrity_error"))
            ELSE Out([db EXCEPT
                        !.rows = @ \cup {Row(db.nextId, t.task.name[1], t.task.status[1])},
                        !.nextId = @ + 1],
                     [t EXCEPT !.pc = "commit", !.lastrowid = db.nextId])
      [] t.pc = "commit" ->
            Out(Commit(db),
                Return(t, Some(Row(t.lastrowid, t.task.name[1], t.task.status[1]))))
      [] t.pc = "integrity_error" ->
            Out(Rollback(db), Raise(t, 500, "Database constraint violation"))

----------------------------------------------------------------------------
(* GET /tasks/{task_id} *)

get_task(db, t) ==
    \* SELECT * from tasks where id = %s
    LET results == {r \in db.rows : r.id = t.task_id} IN
    IF results = {}
    THEN Out(db, Raise(t, 404, "Specific Task ID not found"))
    ELSE Out(db, Return(t, Some(CHOOSE r \in results : TRUE)))

----------------------------------------------------------------------------
(* PATCH /tasks/{task_id} *)

\* UPDATE tasks SET ... WHERE id = %s
UpdateRows(table, id, name, status) ==
    { IF r.id = id
      THEN Row(r.id,
               IF name # None THEN name[1] ELSE r.name,
               IF status # None THEN status[1] ELSE r.status)
      ELSE r : r \in table }

update_task(db, t) ==
    CASE t.pc = "select" ->
            \* SELECT id from tasks where id=%s
            IF ~ \E r \in db.rows : r.id = t.task_id
            THEN Out(db, Raise(t, 404, "Specific Task ID not found"))
            ELSE Out(db, Goto(t, "update"))
      [] t.pc = "update" ->
            IF t.task.name = None /\ t.task.status = None
            THEN Out(db, Raise(t, 400, "No task name or status provided"))
            ELSE IF /\ t.task.name # None
                    /\ \E r \in db.rows : r.id = t.task_id
                    /\ UniqueViolation(db.rows, t.task_id, t.task.name[1])
            THEN Out(db, Goto(t, "integrity_error"))
            ELSE Out([db EXCEPT
                        !.rows = UpdateRows(@, t.task_id, t.task.name, t.task.status)],
                     Goto(t, "commit"))
      [] t.pc = "commit" ->
            \* TaskResponse(id=task_id, name=task.name, status=task.status)
            Out(Commit(db),
                Return(t, Some(Row(t.task_id, t.task.name[1], t.task.status[1]))))
      [] t.pc = "integrity_error" ->
            Out(Rollback(db), Raise(t, 500, "Database constraint violation"))

----------------------------------------------------------------------------
(* DELETE /tasks/{task_id} *)

\* a DELETE that removes nothing
DeleteById_none(table, id) == table

\* DELETE from tasks where id=%s
DeleteById(table, id) == {r \in table : r.id # id}

delete_task(db, t) ==
    CASE t.pc = "select" ->
            \* SELECT id from tasks where id=%s
            IF ~ \E r \in db.rows : r.id = t.task_id
            THEN Out(db, Raise(t, 404, "Specific Task ID not found"))
            ELSE Out(db, Goto(t, "fetch"))
      [] t.pc = "fetch" ->
            \* SELECT * from tasks where id=%s
            LET results == {r \in db.rows : r.id = t.task_id} IN
            IF results # {}
            THEN LET r == CHOOSE r \in results : TRUE IN
                 Out(db, [t EXCEPT !.pc = "delete", !.name = Some(r.name),
                                   !.status = r.status])
            ELSE Out(db, Goto(t, "delete"))
      [] t.pc = "delete" ->
            Out([db EXCEPT !.rows = DeleteById(@, t.task_id)], Goto(t, "commit"))
      [] t.pc = "commit" ->
            \* `name` is unbound when the second SELECT found no row
            IF t.name = None
            THEN Out(Commit(db), Raise(t, 500, "Internal Server Error"))
            ELSE Out(Commit(db), Return(t, Some(Row(t.task_id, t.name[1], t.status))))

----------------------------------------------------------------------------
(* One statement of a handler, and a handler run from request to response *)

ThreadStep(db, t) ==
    CASE t.pc = "recv" -> Receive(db, t)
      [] t.pc # "recv" /\ t.op = "create" -> create_task(db, t)
      [] t.pc # "recv" /\ t.op = "get" -> get_task(db, t)
      [] t.pc # "recv" /\ t.op = "update" -> update_task(db, t)
      [] t.pc # "recv" /\ t.op = "delete" -> delete_task(db, t)

RECURSIVE Run(_, _)
Run(db, t) ==
    IF t.pc = "done" THEN Out(db, t)
    ELSE LET s == ThreadStep(db, t) IN Run(s.db, s.t)

----------------------------------------------------------------------------
(* GET /tasks *)

\* a listing that ignores the status parameter
get_all_tasks_nostatus(table, name, status) ==
    IF name # None THEN {r \in table : NameEq(r.name, name[1])} ELSE table

\* the rows the SELECT of get_all_tasks returns for the query parameters.
\* get_tasks (main.py:170) is registered on the same path after it, so
\* GET /tasks never reaches it.
get_all_tasks(table, name, status) ==
    IF name # None /\ status # None
    THEN {r \in table : NameEq(r.name, name[1]) /\ r.status = status[1]}
    ELSE IF name # None /\ status = None
    THEN {r \in table : NameEq(r.name, name[1])}
    ELSE IF name = None /\ status # None
    THEN {r \in table : r.status = status[1]}
    ELSE table

\* the SELECT has no ORDER BY: the rows come back in an order MySQL chooses
Orders(S) ==
    {q \in [1..Cardinality(S) -> S] : \A i, j \in 1..Cardinality(S) : q[i] = q[j] => i = j}

----------------------------------------------------------------------------
(* Requests served one at a time *)

Ids == 1..MaxId

NameOpts == {None} \cup {Some(n) : n \in NameInputs}

StatusOpts == {None, Some(TRUE), Some(FALSE)}

\* f"%{name_filter}%"
Wrap(f) == <<"%">> \o f \o <<"%">>

ListNameOpts == {None} \cup {Some(f) : f \in FilterInputs}

Init ==
    /\ rows = {}
    /\ durable = {}
    /\ nextId = 1
    /\ th = [w \in Threads |-> Idle]
    /\ resp = Idle
    /\ deleted = {}
    /\ tasks = <<>>
    /\ task_name = <<>>
    /\ task_status = FALSE
    /\ filter_name = <<>>
    /\ show_completed = TRUE
    /\ show_pending = TRUE
    /\ notice = <<>>
    /\ calls = <<>>
    /\ event = "load"

\* the handler runs from request to response with no other request in between
Call(req) ==
    \E out \in {Run(DB, req)} :
    /\ rows' = out.db.rows
    /\ durable' = out.db.durable
    /\ nextId' = out.db.nextId
    /\ resp' = out.t
    /\ deleted' = IF out.t.op = "delete" /\ out.t.code = 200
                  THEN deleted \cup {out.t.task_id} ELSE deleted

ApiCreate ==
    /\ nextId <= MaxId
    /\ \E n \in NameOpts, s \in StatusOpts : Call(Request("create", 0, n, s))
    /\ UNCHANGED <<th, gui>>

ApiGet ==
    /\ \E id \in Ids : Call(Request("get", id, None, None))
    /\ UNCHANGED <<th, gui>>

ApiUpdate ==
    /\ \E id \in Ids, n \in NameOpts, s \in StatusOpts :
         Call(Request("update", id, n, s))
    /\ UNCHANGED <<th, gui>>

ApiDelete ==
    /\ \E id \in Ids : Call(Request("delete", id, None, None))
    /\ UNCHANGED <<th, gui>>

ApiList ==
    \E n \in ListNameOpts, s \in StatusOpts :
        \E q \in Orders(get_all_tasks(rows, n, s)) :
            /\ resp' = Return(Request("list", 0, n, s), q)
            /\ UNCHANGED <<srv, deleted, th, gui>>

Next == ApiCreate \/ ApiGet \/ ApiUpdate \/ ApiDelete \/ ApiList

Spec == Init /\ [][Next]_vars

----------------------------------------------------------------------------
(* Properties of the API, one request at a time *)

IdsOf(table) == {r.id : r \in table}

HasName(table, name) == \E r \in table : NameEq(r.name, name)

DuplicateNameError(r) == r.code = 400 /\ r.detail = "Task name already exists"

\* C1: in every reachable state no two rows of the table carry the same
\* name, in the connection's view and in the committed table alike.
C1_UniqueNames ==
    /\ \A r1, r2 \in rows : r1.id # r2.id => ~ NameEq(r1.name, r2.name)
    /\ \A r1, r2 \in durable : r1.id # r2.id => ~ NameEq(r1.name, r2.name)

\* C1 witness: two rows exist and an Update that would have given one of
\* them the other's name has been answered.
C1_Witness ==
    /\ Cardinality(rows) >= 2
    /\ resp.op = "update"
    /\ resp.code = 500
    /\ \E r \in rows : r.id # resp.task_id /\ NameEq(r.name, resp.body.name[1])

\* C3: an Update of an existing id that supplies only status succeeds and
\* changes only the status of that row; an Update that supplies only a
\* (valid, unused) name succeeds and changes only the name of that row.
C3_PartialUpdate ==
    [][(/\ resp'.op = "update"
        /\ resp'.task_id \in IdsOf(rows))
       =>
       /\ (resp'.body.name = None /\ resp'.body.status # None)
            => /\ resp'.code = 200
               /\ rows' = UpdateRows(rows, resp'.task_id, None, resp'.body.status)
       /\ (/\ resp'.body.name # None
           /\ resp'.body.status = None
           /\ TaskValid(resp'.body)
           /\ ~ UniqueViolation(rows, resp'.task_id, resp'.body.name[1]))
            => /\ resp'.code = 200
               /\ rows' = UpdateRows(rows, resp'.task_id, resp'.body.name, None)
      ]_vars

\* C4: an Update whose new name is the name of a different existing task is
\* answered with the duplicate-name error (400) and changes no row.
C4_UpdateDuplicate ==
    [][(/\ resp'.op = "update"
        /\ resp'.task_id \in IdsOf(rows)
        /\ TaskValid(resp'.body)
        /\ UniqueViolation(rows, resp'.task_id, resp'.body.name[1]))
       =>
       /\ resp'.code = 400
       /\ rows' = rows
       /\ durable' = durable
      ]_vars

\* C5: a Create with a valid name (1..100 characters) that no row carries
\* adds exactly one row with that name; a Create with a valid name that a
\* row already carries fails with the duplicate-name error and adds no row.
C5_CreateOncePerName ==
    [][(resp'.op = "create" /\ TaskValid(resp'.body))
       =>
       IF HasName(rows, resp'.body.name[1])
       THEN /\ DuplicateNameError(resp')
            /\ rows' = rows
            /\ durable' = durable
       ELSE /\ resp'.code = 200
            /\ \E r \in rows' :
                 /\ r.name = resp'.body.name[1]
                 /\ r.status = (resp'.body.status = Some(TRUE))
                 /\ r.id \notin IdsOf(rows)
                 /\ rows' = rows \cup {r}
                 /\ resp'.res = Some(r)
            /\ durable' = rows'
      ]_vars

\* C5 witness: a second Create of a 100-character name has been refused
\* while the row of the first is in the table.
C5_Witness ==
    /\ resp.op = "create"
    /\ DuplicateNameError(resp)
    /\ Len(resp.body.name[1]) = max_length
    /\ Cardinality({r \in rows : r.name = resp.body.name[1]}) = 1

\* the rows of a listing, as a set
Listed(q) == {q[i] : i \in 1..Len(q)}

Descending(q) == \A i, j \in 1..Len(q) : i < j => q[i].id > q[j].id

\* rows a listing with only a status filter has to return
StatusMatches(table, status) ==
    {r \in table : status = None \/ r.status = status[1]}

C8_DeleteIsFinal ==
    [][/\ (resp'.op = "delete" /\ resp'.code = 200)
            => /\ resp'.task_id \in IdsOf(rows)
               /\ rows' = {r \in rows : r.id # resp'.task_id}
               /\ durable' = rows'
       /\ deleted' \cap IdsOf(rows') = {}
       /\ (resp'.op = "get" /\ resp'.task_id \in deleted) => resp'.code = 404
       /\ (resp'.op = "delete" /\ resp'.task_id \in deleted) => resp'.code = 404
      ]_vars

\* C8 witness: a Get of a deleted id has been answered 404 while another
\* row is still in the table.
C8_Witness ==
    /\ resp.op = "get"
    /\ resp.code = 404
    /\ resp.task_id \in deleted
    /\ rows # {}

\* the requests C9 lists as failing
RejectedCreate(t, table) ==
    /\ t.op = "create"
    /\ \/ t.body.name = None
       \/ Len(t.body.name[1]) < min_length
       \/ Len(t.body.name[1]) > max_length
       \/ HasName(table, t.body.name[1])

RejectedUpdate(t, table) ==
    /\ t.op = "update"
    /\ \/ t.body.name = None /\ t.body.status = None
       \/ t.body.name # None /\ Len(t.body.name[1]) < min_length
       \/ t.body.name # None /\ Len(t.body.name[1]) > max_length
       \/ t.task_id \notin IdsOf(table)

RejectedDelete(t, table) ==
    /\ t.op = "delete"
    /\ t.task_id \notin IdsOf(table)

\* C9: a Create with a name of length 0 or above 100 or with a name in use,
\* an Update with no field, with an invalid name or of an absent id, and a
\* Delete of an absent id are answered with an error; and whenever a
\* Create, Update or Delete is answered with an error, the rows (ids, names,
\* statuses) are the same after the request as before.
C9_FailedMutationNoChange ==
    [][/\ (\/ RejectedCreate(resp', rows)
           \/ RejectedUpdate(resp', rows)
           \/ RejectedDelete(resp', rows))
            => resp'.code \in {400, 404, 422}
       /\ (resp'.op \in {"create", "update", "delete"} /\ resp'.code # 200)
            => rows' = rows /\ durable' = durable
      ]_vars

\* C9 witness: a Create with a 101-character name has been refused while
\* the table holds a row.
C9_Witness ==
    /\ resp.op = "create"
    /\ resp.code = 422
    /\ resp.body.name # None
    /\ Len(resp.body.name[1]) = max_length + 1
    /\ rows # {}

----------------------------------------------------------------------------
(* Requests served concurrently: FastAPI runs each `def` handler on a worker *)
(* thread, and every statement goes through the one shared connection        *)

ConcStatus == {None, Some(TRUE)}

Arrive(w, req) ==
    /\ th[w].pc = "idle"
    /\ th' = [th EXCEPT ![w] = req]

ConcCreate(w) ==
    /\ nextId + Cardinality({v \in Threads : th[v].op = "create"}) <= MaxId
    /\ \E n \in ConcNames, s \in ConcStatus :
         Arrive(w, [Request("create", 0, Some(n), s)
                        EXCEPT !.fresh = ~ \E r \in rows : NameEq(r.name, n)])
    /\ UNCHANGED <<srv, resp, deleted, gui>>

ConcUpdate(w) ==
    /\ \E id \in Ids, n \in ConcNames, s \in ConcStatus :
         Arrive(w, Request("update", id, Some(n), s))
    /\ UNCHANGED <<srv, resp, deleted, gui>>

ConcDelete(w) ==
    /\ \E id \in Ids : Arrive(w, Request("delete", id, None, None))
    /\ UNCHANGED <<srv, resp, deleted, gui>>

ConcGet(w) ==
    /\ \E id \in Ids : Arrive(w, Request("get", id, None, None))
    /\ UNCHANGED <<srv, resp, deleted, gui>>

\* the thread executes its next statement
Step(w, op) ==
    /\ th[w].op = op
    /\ th[w].pc \notin {"idle", "done"}
    /\ \E out \in {ThreadStep(DB, th[w])} :
       /\ rows' = out.db.rows
       /\ durable' = out.db.durable
       /\ nextId' = out.db.nextId
       /\ th' = [th EXCEPT ![w] = out.t]
       /\ deleted' = IF out.t.pc = "done" /\ out.t.op = "delete" /\ out.t.code = 200
                     THEN deleted \cup {out.t.task_id} ELSE deleted

CreateStep(w) == Step(w, "create") /\ UNCHANGED <<resp, gui>>

UpdateStep(w) == Step(w, "update") /\ UNCHANGED <<resp, gui>>

DeleteStep(w) == Step(w, "delete") /\ UNCHANGED <<resp, gui>>

GetStep(w) == Step(w, "get") /\ UNCHANGED <<resp, gui>>

\* the response leaves the server
Respond(w) ==
    /\ th[w].pc = "done"
    /\ th' = [th EXCEPT ![w] = Idle]
    /\ UNCHANGED <<srv, resp, deleted, gui>>

NextConc ==
    \E w \in Threads :
        \/ ConcCreate(w)
        \/ ConcUpdate(w)
        \/ ConcDelete(w)
        \/ ConcGet(w)
        \/ CreateStep(w)
        \/ UpdateStep(w)
        \/ DeleteStep(w)
        \/ GetStep(w)
        \/ Respond(w)

SpecConc == Init /\ [][NextConc]_vars

\* C2: when two Create requests with the same name, both arriving while no
\* row carries it, have both been answered, exactly one was answered 200,
\* the other with the duplicate-name error (400), and exactly one row
\* carries the name.
C2_ConcurrentCreate ==
    \A w1, w2 \in Threads :
        (/\ w1 # w2
         /\ th[w1].pc = "done" /\ th[w1].op = "create" /\ th[w1].fresh
         /\ th[w2].pc = "done" /\ th[w2].op = "create" /\ th[w2].fresh
         /\ NameEq(th[w1].body.name[1], th[w2].body.name[1]))
        => /\ \/ th[w1].code = 200 /\ DuplicateNameError(th[w2])
              \/ th[w2].code = 200 /\ DuplicateNameError(th[w1])
           /\ Cardinality({r \in rows : NameEq(r.name, th[w1].body.name[1])}) = 1

----------------------------------------------------------------------------
(* The frontend (src/frontend.py) *)

RECURSIVE LStrip(_)
LStrip(s) == IF s # <<>> /\ Head(s) = " " THEN LStrip(Tail(s)) ELSE s

RECURSIVE RStrip(_)
RStrip(s) == IF s # <<>> /\ s[Len(s)] = " " THEN RStrip(SubSeq(s, 1, Len(s) - 1)) ELSE s

\* str.strip()
Strip(s) == RStrip(LStrip(s))

\* notify(state, level, text); detail is the server's message when quoted
Note(level, text, detail) == [level |-> level, text |-> text, detail |-> detail]

\* one HTTP exchange: status 0 stands for a RequestException
Exchange(method, params, status) == [method |-> method, params |-> params, status |-> status]

NoParams == [name |-> None, status |-> None]

\* requests writes a bool query parameter as str(bool)
QueryBool(b) == IF b THEN "True" ELSE "False"

\* FastAPI reads the `status: bool` query parameter
ParseBool(s) == s \in {"True", "true", "1", "on", "yes"}

\* params of get_tasks
FetchParams(name_filter, status_filter) ==
    [name |-> IF name_filter # <<>> THEN Some(Wrap(name_filter)) ELSE None,
     status |-> IF status_filter # None THEN Some(QueryBool(status_filter[1])) ELSE None]

\* GET /tasks as the server answers it for these params
ServerList(table, params) ==
    get_all_tasks(table, params.name,
                  IF params.status # None THEN Some(ParseBool(params.status[1])) ELSE None)

\* the DataFrame built from the JSON rows
DataFrame(q) ==
    [i \in 1..Len(q) |->
        [ID |-> q[i].id, Name |-> q[i].name,
         Status |-> IF q[i].status THEN "Completed" ELSE "Pending"]]

\* get_tasks(state, name_filter, status_filter), given the fate of the
\* request and the rows q the server sends
fe_get_tasks(name_filter, status_filter, net, q) ==
    LET params == FetchParams(name_filter, status_filter) IN
    IF net = "ok"
    THEN [tasks |-> DataFrame(q), notes |-> <<>>,
          call |-> Exchange("GET", params, 200)]
    ELSE [tasks |-> <<>>,
          notes |-> <<Note("error", "Failed to fetch tasks from server", "")>>,
          call |-> Exchange("GET", params, 0)]

\* a filter that looks at show_completed first
StatusFilter_completedFirst(completed, pending) ==
    IF completed THEN Some(TRUE)
    ELSE IF pending THEN Some(FALSE)
    ELSE None

\* the status filter refresh_tasks derives from the two toggles
StatusFilter(completed, pending) ==
    IF completed /\ ~ pending THEN Some(TRUE)
    ELSE IF pending /\ ~ completed THEN Some(FALSE)
    ELSE None

\* refresh_tasks(state): the outcomes get_tasks can have against `table`
refresh_tasks(table, name_filter, completed, pending) ==
    LET status_filter == StatusFilter(completed, pending) IN
    { fe_get_tasks(name_filter, status_filter, net, q) :
        net \in Net,
        q \in Orders(ServerList(table, FetchParams(name_filter, status_filter))) }

\* the server has handled one request of the frontend
Serve(out) ==
    /\ rows' = out.db.rows
    /\ durable' = out.db.durable
    /\ nextId' = out.db.nextId
    /\ deleted' = IF out.t.op = "delete" /\ out.t.code = 200
                  THEN deleted \cup {out.t.task_id} ELSE deleted

on_task_name_change ==
    \E value \in TypedInputs :
        /\ event' = "on_task_name_change"
        /\ task_name' = value
        /\ notice' = <<>>
        /\ calls' = <<>>
        /\ UNCHANGED <<srv, th, resp, deleted, tasks, task_status, filter_name,
                       show_completed, show_pending>>

\* the "Mark as Completed" toggle is bound to task_status
toggle_task_status ==
    /\ event' = "toggle_task_status"
    /\ task_status' = ~ task_status
    /\ notice' = <<>>
    /\ calls' = <<>>
    /\ UNCHANGED <<srv, th, resp, deleted, tasks, task_name, filter_name,
                   show_completed, show_pending>>

fe_add_task ==
    /\ event' = "add_task"
    /\ IF Strip(task_name) = <<>>
       THEN /\ notice' = <<Note("warning", "Task name cannot be empty", "")>>
            /\ calls' = <<>>
            /\ UNCHANGED <<srv, th, resp, deleted, tasks, task_name, task_status,
                           filter_name, show_completed, show_pending>>
       ELSE
         \/ \* requests.post raises
            /\ notice' = <<Note("error", "Failed to connect to server", "")>>
            /\ calls' = <<Exchange("POST", NoParams, 0)>>
            /\ UNCHANGED <<srv, th, resp, deleted, tasks, task_name, task_status,
                           filter_name, show_completed, show_pending>>
         \/ /\ nextId <= MaxId
            /\ \E out \in {Run(DB, Request("create", 0, Some(Strip(task_name)),
                                             Some(task_status)))} :
               /\ Serve(out)
               /\ IF out.t.code = 200
                  THEN /\ task_name' = <<>>
                       /\ task_status' = FALSE
                       /\ \E f \in refresh_tasks(out.db.rows, filter_name,
                                                 show_completed, show_pending) :
                            /\ tasks' = f.tasks
                            /\ notice' = f.notes \o <<Note("success", "Task added successfully", "")>>
                            /\ calls' = <<Exchange("POST", NoParams, 200), f.call>>
                  ELSE /\ notice' = <<Note("error", "Failed to add task", out.t.detail)>>
                       /\ calls' = <<Exchange("POST", NoParams, out.t.code)>>
                       /\ UNCHANGED <<tasks, task_name, task_status>>
            /\ UNCHANGED <<th, resp, filter_name, show_completed, show_pending>>

\* the part of update_task and delete_task after the request was sent:
\* refresh on 200, the server's detail otherwise
AfterMutation(method, out, done, failed) ==
    IF out.t.code = 200
    THEN \E f \in refresh_tasks(out.db.rows, filter_name, show_completed, show_pending) :
            /\ tasks' = f.tasks
            /\ notice' = f.notes \o <<Note("success", done, "")>>
            /\ calls' = <<Exchange(method, NoParams, 200), f.call>>
    ELSE /\ notice' = <<Note("error", failed, out.t.detail)>>
         /\ calls' = <<Exchange(method, NoParams, out.t.code)>>
         /\ UNCHANGED tasks

\* update_task up to requests.patch: the JSON it sends, or the reason it sends none
PatchBody(index, col, value) ==
    IF index > Len(tasks)
    THEN [send |-> FALSE, note |-> Note("error", "Invalid update operation", "")]
    ELSE IF col \notin {"Task Name", "Status"}
    THEN [send |-> FALSE, note |-> Note("error", "Invalid column for update", "")]
    ELSE IF col = "Status"
    THEN [send |-> TRUE, task_id |-> tasks[index].ID,
          name |-> None, status |-> Some(value = "Completed")]
    ELSE IF ~ (1 <= Len(Strip(value)) /\ Len(Strip(value)) <= 100)
    THEN [send |-> FALSE,
          note |-> Note("error", "Task name must be between 1 and 100 characters", "")]
    ELSE [send |-> TRUE, task_id |-> tasks[index].ID,
          name |-> Some(value), status |-> None]

fe_update_task ==
    /\ event' = "update_task"
    /\ \E index \in 1..(Len(tasks) + 1) :
       \E cell \in ({"Task Name"} \X CellInputs)
                   \cup ({"Status"} \X {"Completed", "Pending"})
                   \cup {<<"ID", "1">>} :
           \E p \in {PatchBody(index, cell[1], cell[2])} :
           IF ~ p.send
           THEN /\ notice' = <<p.note>>
                /\ calls' = <<>>
                /\ UNCHANGED <<srv, th, resp, deleted, tasks, task_name, task_status,
                               filter_name, show_completed, show_pending>>
           ELSE
             \/ \* requests.patch raises
                /\ notice' = <<Note("error", "Failed to connect to server", "")>>
                /\ calls' = <<Exchange("PATCH", NoParams, 0)>>
                /\ UNCHANGED <<srv, th, resp, deleted, tasks, task_name, task_status,
                               filter_name, show_completed, show_pending>>
             \/ \E out \in {Run(DB, Request("update", p.task_id, p.name, p.status))} :
                /\ Serve(out)
                /\ AfterMutation("PATCH", out, "Task updated successfully",
                                 "Failed to update task")
                /\ UNCHANGED <<th, resp, task_name, task_status, filter_name,
                               show_completed, show_pending>>

fe_delete_task ==
    /\ event' = "delete_task"
    /\ \E index \in 1..(Len(tasks) + 1) :
           IF index > Len(tasks)
           THEN /\ notice' = <<Note("error", "Invalid delete operation", "")>>
                /\ calls' = <<>>
                /\ UNCHANGED <<srv, th, resp, deleted, tasks, task_name, task_status,
                               filter_name, show_completed, show_pending>>
           ELSE
             \/ \* requests.delete raises
                /\ notice' = <<Note("error", "Failed to connect to server", "")>>
                /\ calls' = <<Exchange("DELETE", NoParams, 0)>>
                /\ UNCHANGED <<srv, th, resp, deleted, tasks, task_name, task_status,
                               filter_name, show_completed, show_pending>>
             \/ \E out \in {Run(DB, Request("delete", tasks[index].ID, None, None))} :
                /\ Serve(out)
                /\ AfterMutation("DELETE", out, "Task deleted successfully",
                                 "Failed to delete task")
                /\ UNCHANGED <<th, resp, task_name, task_status, filter_name,
                               show_completed, show_pending>>

\* on_filter_change(state, var_name, value): the control has its new value
\* when the callback refreshes
on_filter_change(name_filter, completed, pending) ==
    /\ event' = "on_filter_change"
    /\ filter_name' = name_filter
    /\ show_completed' = completed
    /\ show_pending' = pending
    /\ \E f \in refresh_tasks(rows, name_filter, completed, pending) :
         /\ tasks' = f.tasks
         /\ notice' = f.notes
         /\ calls' = <<f.call>>

FilterByName ==
    /\ \E f \in FilterInputs : on_filter_change(f, show_completed, show_pending)
    /\ UNCHANGED <<srv, th, resp, deleted, task_name, task_status>>

ToggleShowCompleted ==
    /\ on_filter_change(filter_name, ~ show_completed, show_pending)
    /\ UNCHANGED <<srv, th, resp, deleted, task_name, task_status>>

ToggleShowPending ==
    /\ on_filter_change(filter_name, show_completed, ~ show_pending)
    /\ UNCHANGED <<srv, th, resp, deleted, task_name, task_status>>

clear_filters ==
    /\ event' = "clear_filters"
    /\ filter_name' = <<>>
    /\ show_completed' = TRUE
    /\ show_pending' = TRUE
    /\ \E f \in refresh_tasks(rows, <<>>, TRUE, TRUE) :
         /\ tasks' = f.tasks
         /\ notice' = f.notes
         /\ calls' = <<f.call>>
    /\ UNCHANGED <<srv, th, resp, deleted, task_name, task_status>>

NextGui ==
    \/ on_task_name_change
    \/ toggle_task_status
    \/ fe_add_task
    \/ fe_update_task
    \/ fe_delete_task
    \/ FilterByName
    \/ ToggleShowCompleted
    \/ ToggleShowPending
    \/ clear_filters

SpecGui == Init /\ [][NextGui]_vars

----------------------------------------------------------------------------
(* Properties of the frontend *)

\* f occurs in s at some position
Contains(s, f) ==
    \E i \in 0..(Len(s) - Len(f)) : SubSeq(s, i + 1, i + Len(f)) = f

\* the action ended with a list fetch that the server answered
Fetched ==
    /\ calls # <<>>
    /\ calls[Len(calls)].method = "GET"
    /\ calls[Len(calls)].status = 200

\* C7: after a list fetch with the text f in the name filter, the rendered
\* tasks are exactly the tasks whose name contains f at any position,
\* compared without regard to case (and whose status passes the toggles).
C7_NameFilterSubstring ==
    Fetched =>
        {tasks[i].ID : i \in 1..Len(tasks)} =
        {r.id : r \in {x \in rows :
            /\ Contains(LowerStr(x.name), LowerStr(filter_name))
            /\ \/ StatusFilter(show_completed, show_pending) = None
               \/ StatusFilter(show_completed, show_pending) = Some(x.status)}}

\* C10: an action of the client in which a request fails (a network error
\* or a status other than 200) notifies an error and leaves the rendered
\* list as it was before the action.
C10_FailureKeepsList ==
    [][(\E i \in 1..Len(calls') : calls'[i].status # 200)
       =>
       /\ \E j \in 1..Len(notice') : notice'[j].level = "error"
       /\ tasks' = tasks
      ]_vars

\* the rendered ids
Rendered == {tasks[i].ID : i \in 1..Len(tasks)}

\* C11: every list fetch carries a status parameter fixed by the two toggles
\* alone: none when both are on or both are off, completed (true) when only
\* show-completed is on, pending (false) when only show-pending is on; with
\* an empty name filter an answered fetch then renders exactly the tasks of
\* that status (all tasks when there is no status parameter).  After Clear
\* filters the name filter is empty, both toggles are on, and the one
\* request made is a fetch with no parameters, which renders all tasks when
\* answered.
C11_StatusFilterFromToggles ==
    /\ (calls # <<>> /\ calls[Len(calls)].method = "GET")
        => /\ IF show_completed = show_pending
              THEN calls[Len(calls)].params.status = None
              ELSE /\ calls[Len(calls)].params.status # None
                   /\ calls[Len(calls)].params.status[1] \in {"True", "False"}
                   /\ ParseBool(calls[Len(calls)].params.status[1]) = show_completed
           /\ (calls[Len(calls)].status = 200 /\ filter_name = <<>>)
                => /\ Rendered = {r.id : r \in {x \in rows :
                                    show_completed = show_pending \/ x.status = show_completed}}
                   /\ \A i, j \in 1..Len(tasks) : tasks[i].ID = tasks[j].ID => i = j
    /\ event = "clear_filters"
        => /\ filter_name = <<>>
           /\ show_completed
           /\ show_pending
           /\ Len(calls) = 1
           /\ calls[1].method = "GET"
           /\ calls[1].params = NoParams
           /\ calls[1].status = 200 => Rendered = IdsOf(rows)

\* C11 witness: with only show-completed on, a fetch was answered and
\* renders a completed task while a pending one is in the table.
C11_Witness ==
    /\ event = "on_filter_change"
    /\ show_completed
    /\ ~ show_pending
    /\ Fetched
    /\ filter_name = <<>>
    /\ Len(tasks) >= 1
    /\ \E r \in rows : ~ r.status

\* the statement that answers thread w with success is its commit
Succeeds(w) ==
    /\ th[w].pc = "commit"
    /\ th'[w].pc = "done"
    /\ th'[w].code = 200

\* C12: with requests running concurrently over the one shared connection,
\* whenever a Create is answered with success the row of the id it returns
\* is committed, and whenever a Delete is answered with success the row of
\* its id is gone from the committed table: no rollback or commit of
\* another request between the write and its commit undoes the write.
C12_SuccessMeansCommitted ==
    [][\A w \in Threads :
          Succeeds(w)
          => /\ th'[w].op = "create"
                  => \E r \in durable' : r.id = th'[w].lastrowid
             /\ th'[w].op = "delete"
                  => ~ \E r \in durable' : r.id = th'[w].task_id]_vars

====
